---- MODULE Spec2Model ----
(***************************************************************************)
(* Model of hrs_to_osc.py: the connection supervisor loop of main(), the   *)
(* heart-rate measurement decoder parse_heart_rate(), the cadence mapping  *)
(* and OSC forwarding of notification_handler() / send_osc().              *)
(*                                                                         *)
(* The supervisor is one asyncio task.  pc names the point the task is at: *)
(*   Idle            line 186, top of the while loop                       *)
(*   Scanning        line 187, awaiting scan_and_connect()                 *)
(*   ScanRetrySleep  line 192, awaiting sleep(scan_retry_interval)         *)
(*   Connecting      line 200, awaiting BleakClient.__aenter__             *)
(*   Subscribing     line 209, awaiting client.start_notify                *)
(*   Monitoring      line 216, testing client.is_connected                 *)
(*   MaintainSleep   line 217, awaiting sleep(maintain_interval)           *)
(*   Backoff         line 232, after the try statement                     *)
(*   RetrySleep      lines 238/242, awaiting sleep(retry_delay)            *)
(*   Terminated      main() has returned or an exception left it           *)
(***************************************************************************)
EXTENDS Integers, Sequences, FiniteSets, TLC

VARIABLES
    pc,               \* position of the supervisor task
    device_address,   \* main(): device_address (None or an address)
    retry_count,      \* main(): retry_count
    max_retries,      \* CONFIG["connection"]["max_retries"]
    clients,          \* number of BleakClient contexts entered and not exited
    is_connected,     \* client.is_connected of the open client
    handlers,         \* notification handlers bound to the open client
    sleep_delay,      \* argument of the asyncio.sleep being awaited, 0 if none
    stop_signal,      \* the user has sent the interrupt
    escaped,          \* exception that left main(), "none" if none
    prev,             \* supervisor state before its latest step (history)
    consec_fails,     \* connect failures in a row against device_address (history)
    only_not_found,   \* every scan so far returned "not found" (history)
    cause,            \* why Backoff was last entered, "none" once retried (history)
    data,             \* payload of the latest notification of this poll interval
    heart_rate,       \* notification_handler(): heart_rate
    normalized_hr,    \* notification_handler(): normalized_hr
    sent,             \* OSC messages sent by the latest handler call
    osc_error,        \* send_osc() caught an exception in the latest call
    handler_raised,   \* the latest handler call raised (ZeroDivisionError)
    attempted,        \* addresses send_osc() tried to send in the latest call
    received,         \* heart rates decoded from the notifications of this connection (history)
    forwarded,        \* heartbeat_value messages sent in this connection (history)
    default_config,   \* merge_config(): default_config
    user_config,      \* merge_config(): user_config
    merged            \* merge_config(): the returned mapping, once it has returned

supVars == <<pc, device_address, retry_count, max_retries, clients,
             is_connected, handlers, sleep_delay, stop_signal, escaped,
             prev, consec_fails, only_not_found, cause>>
pipeVars == <<data, heart_rate, normalized_hr, sent, osc_error, handler_raised,
              attempted>>
logVars == <<received, forwarded>>
cfgVars == <<default_config, user_config, merged>>
vars == <<pc, device_address, retry_count, max_retries, clients,
          is_connected, handlers, sleep_delay, stop_signal, escaped,
          prev, consec_fails, only_not_found, cause,
          data, heart_rate, normalized_hr, sent, osc_error, handler_raised,
          attempted, received, forwarded, default_config, user_config, merged>>

----------------------------------------------------------------------------
(* Bounds of the model *)

MaxRetriesCfg == 3
MaxPayloadLen == 3
MaxBpm == 320

----------------------------------------------------------------------------
(* Configuration and constants of the program *)

scan_retry_interval == 5
retry_delay == 3
maintain_interval == 1

None == "None"
\* parse_heart_rate() returning None; heart rates are integers >= 0
NoValue == -1
\* floats are modelled as exact fractions <<numerator, denominator>>, denominator > 0
\* normalized_hr before it is assigned
Unset == <<0, 0>>
\* the result of a float division by zero (Python raises ZeroDivisionError)
ZeroDivision == <<1, 0>>
Devices == {"dev1", "dev2"}

\* bytes used in notification payloads: as flags, 1 selects the 16-bit value
\* and 0 and 44 the 8-bit value; as values they give the heart rates
\* 0, 1, 44, 256, 257, 300 (44 + 256 * 1) and larger ones
Bytes == {0, 1, 44}

RECURSIVE SeqsUpTo(_, _)
SeqsUpTo(S, n) ==
    IF n = 0 THEN {<<>>}
    ELSE LET shorter == SeqsUpTo(S, n - 1)
         IN  shorter \cup {Append(s, b) : s \in {t \in shorter : Len(t) = n - 1}, b \in S}

Payloads == SeqsUpTo(Bytes, MaxPayloadLen)

----------------------------------------------------------------------------
(* Exceptions *)

\* classes derived from Exception that the awaited BLE calls raise
ScanErrors == {"BleakError", "OSError"}
ConnectErrors == {"TimeoutError", "BleakError"}
SubscribeErrors == {"BleakError"}
\* what the interrupt raises inside the task: KeyboardInterrupt itself, or
\* CancelledError when asyncio.run cancels the main task
StopErrors == {"KeyboardInterrupt", "CancelledError"}

IsException(exc) == exc \in {"TimeoutError", "BleakError", "OSError"}

\* the statement that lines 184-229 select for an exception raised in the try
ExceptClause_noGeneric(exc) ==
    IF exc = "KeyboardInterrupt" THEN "break"
    ELSE IF exc = "TimeoutError" THEN "retry"
    ELSE "propagate"

ExceptClause(exc) ==
    IF exc = "KeyboardInterrupt" THEN "break"
    ELSE IF exc = "TimeoutError" THEN "retry"
    ELSE IF IsException(exc) THEN "retry"
    ELSE "propagate"

InTry(p) == p \in {"Idle", "Scanning", "ScanRetrySleep", "Connecting",
                   "Subscribing", "Monitoring", "MaintainSleep"}

\* BleakClient.__aexit__: disconnects, the open client and its handler go away
AExit_leak(c) == c

AExit(c) == IF c > 0 THEN c - 1 ELSE 0

Snapshot == [pc |-> pc, retry_count |-> retry_count, device_address |-> device_address]

PipeIdle ==
    /\ data = <<>>
    /\ heart_rate = NoValue
    /\ normalized_hr = Unset
    /\ sent = <<>>
    /\ osc_error = FALSE
    /\ handler_raised = FALSE
    /\ attempted = <<>>

PipeReset ==
    /\ data' = <<>>
    /\ heart_rate' = NoValue
    /\ normalized_hr' = Unset
    /\ sent' = <<>>
    /\ osc_error' = FALSE
    /\ handler_raised' = FALSE
    /\ attempted' = <<>>

\* no notification of the current connection has been handled
LogIdle ==
    /\ received = <<>>
    /\ forwarded = <<>>

\* a configuration mapping: keys to values, a value is a scalar or a mapping
Scalar(x) == [kind |-> "val", v |-> x]
Mapping(m) == [kind |-> "map", m |-> m]
NotMerged == [done |-> FALSE, result |-> <<>>]

\* initialize_config() has returned: nothing is being merged
ConfigLoaded ==
    /\ default_config = <<>>
    /\ user_config = <<>>
    /\ merged = NotMerged

----------------------------------------------------------------------------
(* Initial state: main() lines 166-181 *)

Init ==
    /\ pc = "Idle"
    /\ device_address = None
    /\ retry_count = 0
    /\ max_retries \in 0..MaxRetriesCfg
    /\ clients = 0
    /\ is_connected = FALSE
    /\ handlers = 0
    /\ sleep_delay = 0
    /\ stop_signal = FALSE
    /\ escaped = "none"
    /\ prev = [pc |-> "start", retry_count |-> 0, device_address |-> None]
    /\ consec_fails = 0
    /\ only_not_found = TRUE
    /\ cause = "none"
    /\ PipeIdle
    /\ LogIdle
    /\ ConfigLoaded

----------------------------------------------------------------------------
(* The supervisor loop: main() lines 183-242 *)

\* an exception exc raised inside the try statement (lines 221-229)
Raise(exc, why) ==
    LET clause == ExceptClause(exc) IN
    /\ prev' = Snapshot
    /\ cause' = why
    /\ sleep_delay' = 0
    /\ IF clause = "retry"
       THEN /\ retry_count' = retry_count + 1
            /\ pc' = "Backoff"
            /\ escaped' = escaped
       ELSE /\ retry_count' = retry_count
            /\ pc' = "Terminated"
            /\ escaped' = IF clause = "break" THEN escaped ELSE exc

\* line 186: no address yet, start a scan
IdleToScanning ==
    /\ pc = "Idle"
    /\ device_address = None
    /\ pc' = "Scanning"
    /\ prev' = Snapshot
    /\ UNCHANGED <<device_address, retry_count, max_retries, clients, is_connected,
                   handlers, sleep_delay, stop_signal, escaped, consec_fails,
                   only_not_found>>
    /\ UNCHANGED pipeVars
    /\ UNCHANGED <<logVars, cfgVars>>
    /\ cause' = "none"

\* line 186 with an address held: go on to the connect at line 200
IdleToConnecting ==
    /\ pc = "Idle"
    /\ device_address # None
    /\ pc' = "Connecting"
    /\ prev' = Snapshot
    /\ UNCHANGED <<device_address, retry_count, max_retries, clients, is_connected,
                   handlers, sleep_delay, stop_signal, escaped, consec_fails,
                   only_not_found>>
    /\ UNCHANGED pipeVars
    /\ UNCHANGED <<logVars, cfgVars>>
    /\ cause' = "none"

\* line 187: scan_and_connect() returns the address of a heart-rate sensor
ScanFound ==
    /\ pc = "Scanning"
    /\ \E addr \in Devices : device_address' = addr
    /\ pc' = "Connecting"
    /\ prev' = Snapshot
    /\ consec_fails' = 0
    /\ only_not_found' = FALSE
    /\ UNCHANGED <<retry_count, max_retries, clients, is_connected, handlers,
                   sleep_delay, stop_signal, escaped>>
    /\ UNCHANGED pipeVars
    /\ UNCHANGED <<logVars, cfgVars>>
    /\ UNCHANGED cause

ScanNotFound_counted ==
    /\ pc = "Scanning"
    /\ device_address' = None
    /\ retry_count' = retry_count + 1
    /\ pc' = "Backoff"
    /\ sleep_delay' = 0
    /\ prev' = Snapshot
    /\ UNCHANGED <<max_retries, clients, is_connected, handlers,
                   stop_signal, escaped, consec_fails, only_not_found>>
    /\ UNCHANGED pipeVars
    /\ UNCHANGED <<logVars, cfgVars>>
    /\ cause' = "scan_error"

\* lines 187-193: scan_and_connect() returns None, sleep scan_retry_interval
ScanNotFound ==
    /\ pc = "Scanning"
    /\ device_address' = None
    /\ pc' = "ScanRetrySleep"
    /\ sleep_delay' = scan_retry_interval
    /\ prev' = Snapshot
    /\ UNCHANGED <<retry_count, max_retries, clients, is_connected, handlers,
                   stop_signal, escaped, consec_fails, only_not_found>>
    /\ UNCHANGED pipeVars
    /\ UNCHANGED <<logVars, cfgVars>>
    /\ UNCHANGED cause

\* line 187: BleakScanner.discover raises; lines 227-229
ScanError ==
    /\ pc = "Scanning"
    /\ \E exc \in ScanErrors : Raise(exc, "scan_error")
    /\ only_not_found' = FALSE
    /\ UNCHANGED <<device_address, max_retries, clients, is_connected, handlers,
                   stop_signal, consec_fails>>
    /\ UNCHANGED pipeVars
    /\ UNCHANGED <<logVars, cfgVars>>

\* lines 192-193: the sleep ends, continue
ScanSleepWake ==
    /\ pc = "ScanRetrySleep"
    /\ pc' = "Idle"
    /\ sleep_delay' = 0
    /\ prev' = Snapshot
    /\ UNCHANGED <<device_address, retry_count, max_retries, clients, is_connected,
                   handlers, stop_signal, escaped, consec_fails, only_not_found>>
    /\ UNCHANGED pipeVars
    /\ UNCHANGED <<logVars, cfgVars>>
    /\ UNCHANGED cause

ConnectOK_keepCount ==
    /\ pc = "Connecting"
    /\ clients' = clients + 1
    /\ is_connected' = TRUE
    /\ retry_count' = retry_count
    /\ pc' = "Subscribing"
    /\ prev' = Snapshot
    /\ consec_fails' = 0
    /\ UNCHANGED <<device_address, max_retries, handlers, sleep_delay, stop_signal,
                   escaped, only_not_found>>
    /\ UNCHANGED pipeVars
    /\ UNCHANGED <<logVars, cfgVars>>
    /\ UNCHANGED cause

\* lines 200-206: the connect succeeds, retry_count = 0
ConnectOK ==
    /\ pc = "Connecting"
    /\ clients' = clients + 1
    /\ is_connected' = TRUE
    /\ retry_count' = 0
    /\ pc' = "Subscribing"
    /\ prev' = Snapshot
    /\ consec_fails' = 0
    /\ UNCHANGED <<device_address, max_retries, handlers, sleep_delay, stop_signal,
                   escaped, only_not_found>>
    /\ UNCHANGED pipeVars
    /\ UNCHANGED <<logVars, cfgVars>>
    /\ UNCHANGED cause

\* line 200: the connect times out or fails; lines 224-229
ConnectFail ==
    /\ pc = "Connecting"
    /\ \E exc \in ConnectErrors : Raise(exc, "connect_fail")
    /\ consec_fails' = consec_fails + 1
    /\ UNCHANGED <<device_address, max_retries, clients, is_connected, handlers,
                   stop_signal, only_not_found>>
    /\ UNCHANGED pipeVars
    /\ UNCHANGED <<logVars, cfgVars>>

\* lines 209-213: start_notify binds the handler
SubscribeOK ==
    /\ pc = "Subscribing"
    /\ is_connected
    /\ handlers' = handlers + 1
    /\ pc' = "Monitoring"
    /\ prev' = Snapshot
    /\ UNCHANGED <<device_address, retry_count, max_retries, clients, is_connected,
                   sleep_delay, stop_signal, escaped, consec_fails, only_not_found>>
    /\ UNCHANGED pipeVars
    /\ UNCHANGED <<logVars, cfgVars>>
    /\ UNCHANGED cause

\* line 209: start_notify raises, the with block is left; lines 227-229
SubscribeError ==
    /\ pc = "Subscribing"
    /\ \E exc \in SubscribeErrors : Raise(exc, "subscribe_error")
    /\ clients' = AExit(clients)
    /\ is_connected' = FALSE
    /\ handlers' = 0
    /\ UNCHANGED <<device_address, max_retries, stop_signal, consec_fails,
                   only_not_found>>
    /\ UNCHANGED pipeVars
    /\ UNCHANGED <<logVars, cfgVars>>

PollConnected_always ==
    /\ pc = "Monitoring"
    /\ pc' = "MaintainSleep"
    /\ sleep_delay' = maintain_interval
    /\ prev' = Snapshot
    /\ UNCHANGED <<device_address, retry_count, max_retries, clients, is_connected,
                   handlers, stop_signal, escaped, consec_fails, only_not_found>>
    /\ UNCHANGED pipeVars
    /\ UNCHANGED <<logVars, cfgVars>>
    /\ UNCHANGED cause

\* lines 216-217: the link is up, sleep maintain_interval
PollConnected ==
    /\ pc = "Monitoring"
    /\ is_connected
    /\ pc' = "MaintainSleep"
    /\ sleep_delay' = maintain_interval
    /\ prev' = Snapshot
    /\ UNCHANGED <<device_address, retry_count, max_retries, clients, is_connected,
                   handlers, stop_signal, escaped, consec_fails, only_not_found>>
    /\ UNCHANGED pipeVars
    /\ UNCHANGED <<logVars, cfgVars>>
    /\ UNCHANGED cause

\* line 217: the sleep ends, back to the test of line 216
MaintainWake ==
    /\ pc = "MaintainSleep"
    /\ pc' = "Monitoring"
    /\ sleep_delay' = 0
    /\ prev' = Snapshot
    /\ PipeReset
    /\ UNCHANGED <<logVars, cfgVars>>
    /\ UNCHANGED <<device_address, retry_count, max_retries, clients, is_connected,
                   handlers, stop_signal, escaped, consec_fails, only_not_found>>
    /\ UNCHANGED cause

PollDisconnected_clears ==
    /\ pc = "Monitoring"
    /\ ~is_connected
    /\ clients' = AExit(clients)
    /\ handlers' = 0
    /\ device_address' = None
    /\ pc' = "Backoff"
    /\ prev' = Snapshot
    /\ UNCHANGED <<retry_count, max_retries, is_connected,
                   sleep_delay, stop_signal, escaped, consec_fails, only_not_found>>
    /\ UNCHANGED pipeVars
    /\ UNCHANGED <<logVars, cfgVars>>
    /\ cause' = "link_lost"

PollDisconnected_keepsHandler ==
    /\ pc = "Monitoring"
    /\ ~is_connected
    /\ clients' = AExit(clients)
    /\ handlers' = handlers
    /\ pc' = "Backoff"
    /\ prev' = Snapshot
    /\ UNCHANGED <<device_address, retry_count, max_retries, is_connected,
                   sleep_delay, stop_signal, escaped, consec_fails, only_not_found>>
    /\ UNCHANGED pipeVars
    /\ UNCHANGED <<logVars, cfgVars>>
    /\ cause' = "link_lost"

\* lines 216, 219: the link is down, the with block is left normally
PollDisconnected ==
    /\ pc = "Monitoring"
    /\ ~is_connected
    /\ clients' = AExit(clients)
    /\ handlers' = 0
    /\ pc' = "Backoff"
    /\ prev' = Snapshot
    /\ UNCHANGED <<device_address, retry_count, max_retries, is_connected,
                   sleep_delay, stop_signal, escaped, consec_fails, only_not_found>>
    /\ UNCHANGED pipeVars
    /\ UNCHANGED <<logVars, cfgVars>>
    /\ cause' = "link_lost"

Backoff_noSleepOnClear ==
    /\ pc = "Backoff"
    /\ IF retry_count >= max_retries
       THEN /\ device_address' = None
            /\ retry_count' = 0
            /\ consec_fails' = 0
            /\ pc' = "Idle"
            /\ sleep_delay' = 0
       ELSE /\ UNCHANGED <<device_address, retry_count, consec_fails>>
            /\ pc' = "RetrySleep"
            /\ sleep_delay' = retry_delay
    /\ prev' = Snapshot
    /\ UNCHANGED <<max_retries, clients, is_connected, handlers, stop_signal,
                   escaped, only_not_found>>
    /\ UNCHANGED pipeVars
    /\ UNCHANGED <<logVars, cfgVars>>
    /\ UNCHANGED cause

Backoff_strict ==
    /\ pc = "Backoff"
    /\ IF retry_count > max_retries
       THEN /\ device_address' = None
            /\ retry_count' = 0
            /\ consec_fails' = 0
            /\ pc' = "RetrySleep"
            /\ sleep_delay' = retry_delay
       ELSE /\ UNCHANGED <<device_address, retry_count, consec_fails>>
            /\ pc' = "RetrySleep"
            /\ sleep_delay' = retry_delay
    /\ prev' = Snapshot
    /\ UNCHANGED <<max_retries, clients, is_connected, handlers, stop_signal,
                   escaped, only_not_found>>
    /\ UNCHANGED pipeVars
    /\ UNCHANGED <<logVars, cfgVars>>
    /\ UNCHANGED cause

\* lines 232-242: clear the address after max_retries, then sleep retry_delay
Backoff ==
    /\ pc = "Backoff"
    /\ IF retry_count >= max_retries
       THEN /\ device_address' = None
            /\ retry_count' = 0
            /\ consec_fails' = 0
       ELSE UNCHANGED <<device_address, retry_count, consec_fails>>
    /\ pc' = "RetrySleep"
    /\ sleep_delay' = retry_delay
    /\ prev' = Snapshot
    /\ UNCHANGED <<max_retries, clients, is_connected, handlers, stop_signal,
                   escaped, only_not_found>>
    /\ UNCHANGED pipeVars
    /\ UNCHANGED <<logVars, cfgVars>>
    /\ UNCHANGED cause

\* lines 238/242: the sleep ends, next iteration of the while loop
RetrySleepWake ==
    /\ pc = "RetrySleep"
    /\ pc' = "Idle"
    /\ sleep_delay' = 0
    /\ prev' = Snapshot
    /\ UNCHANGED <<device_address, retry_count, max_retries, clients, is_connected,
                   handlers, stop_signal, escaped, consec_fails, only_not_found>>
    /\ UNCHANGED pipeVars
    /\ UNCHANGED <<logVars, cfgVars>>
    /\ UNCHANGED cause

\* the peripheral drops the link while the task awaits (line 203 only prints)
LinkDown ==
    /\ pc \in {"Subscribing", "MaintainSleep"}
    /\ is_connected
    /\ is_connected' = FALSE
    /\ UNCHANGED <<pc, device_address, retry_count, max_retries, clients, handlers,
                   sleep_delay, stop_signal, escaped, prev, consec_fails,
                   only_not_found>>
    /\ UNCHANGED pipeVars
    /\ UNCHANGED <<logVars, cfgVars>>
    /\ UNCHANGED cause

Stop_deferred ==
    /\ pc \notin {"Terminated", "ScanRetrySleep", "RetrySleep", "MaintainSleep"}
    /\ stop_signal' = TRUE
    /\ clients' = AExit(clients)
    /\ is_connected' = FALSE
    /\ handlers' = 0
    /\ pc' = "Terminated"
    /\ sleep_delay' = 0
    /\ prev' = Snapshot
    /\ escaped' = escaped
    /\ PipeReset
    /\ UNCHANGED <<logVars, cfgVars>>
    /\ UNCHANGED <<device_address, retry_count, max_retries, consec_fails,
                   only_not_found>>
    /\ UNCHANGED cause

\* the user interrupt: lines 221-223, or the exception leaves main() through
\* the with block of lines 200-204; asyncio.run (line 246) returns
Stop ==
    /\ pc # "Terminated"
    /\ stop_signal' = TRUE
    /\ clients' = AExit(clients)
    /\ is_connected' = FALSE
    /\ handlers' = 0
    /\ pc' = "Terminated"
    /\ sleep_delay' = 0
    /\ prev' = Snapshot
    /\ \E exc \in StopErrors :
          escaped' = IF InTry(pc) /\ ExceptClause(exc) = "break" THEN escaped ELSE exc
    /\ PipeReset
    /\ UNCHANGED <<logVars, cfgVars>>
    /\ UNCHANGED <<device_address, retry_count, max_retries, consec_fails,
                   only_not_found>>
    /\ UNCHANGED cause

----------------------------------------------------------------------------
(* Measurement decoder: parse_heart_rate(), lines 96-112 *)

parse_heart_rate_bigEndian(d) ==
    IF Len(d) < 2 THEN NoValue
    ELSE LET flags == d[1] IN
         IF flags % 2 = 1
         THEN IF Len(d) >= 3 THEN 256 * d[2] + d[3] ELSE NoValue
         ELSE d[2]

parse_heart_rate(d) ==
    IF Len(d) < 2 THEN NoValue
    ELSE LET flags == d[1] IN
         IF flags % 2 = 1
         THEN IF Len(d) >= 3 THEN d[2] + 256 * d[3] ELSE NoValue
         ELSE d[2]

----------------------------------------------------------------------------
(* Signal mapper: notification_handler() lines 139-143 *)

HR_CONST == <<1, 5>>
HR_FLEX == <<1, 5>>

Sub(a, b) == <<a[1] * b[2] - b[1] * a[2], a[2] * b[2]>>
Mul(a, b) == <<a[1] * b[1], a[2] * b[2]>>
\* a / b; raises when b is zero; the denominator of the result is kept positive
Div(a, b) ==
    IF a = ZeroDivision \/ b = ZeroDivision \/ b[1] = 0 THEN ZeroDivision
    ELSE IF b[1] > 0 THEN <<a[1] * b[2], a[2] * b[1]>>
    ELSE <<(0 - a[1]) * b[2], a[2] * (0 - b[1])>>
Less(a, b) == a[1] * b[2] < b[1] * a[2]
Min(a, b) == IF Less(b, a) THEN b ELSE a
Max(a, b) == IF Less(a, b) THEN b ELSE a

\* line 142: 1 / (1 / HR_CONST * (60 / heart_rate - HR_FLEX))
calculated_hr(hr) ==
    LET quot == Div(<<60, 1>>, <<hr, 1>>)
        inv  == Div(<<1, 1>>, HR_CONST)
    IN  IF quot = ZeroDivision THEN ZeroDivision
        ELSE Div(<<1, 1>>, Mul(inv, Sub(quot, HR_FLEX)))

\* line 143: max(0.0, min(1.0, calculated_hr))
Clamp(c) == Max(<<0, 1>>, Min(<<1, 1>>, c))

----------------------------------------------------------------------------
(* OSC forwarder and notification handler: lines 115-126, 132-159 *)

Messages(hr, norm) ==
    << [address |-> "heartbeat_value", value |-> <<hr, 1>>],
       [address |-> "heartbeat_waittime", value |-> norm] >>

\* send_osc(): fail_at is the index of the message whose send_message raises
\* (0: none); the except clause of line 125 ends the for loop
send_osc(send_list, fail_at) ==
    IF fail_at = 0 \/ fail_at > Len(send_list)
    THEN [sent |-> send_list, osc_error |-> FALSE,
          attempted |-> [i \in 1..Len(send_list) |-> send_list[i].address]]
    ELSE [sent |-> SubSeq(send_list, 1, fail_at - 1), osc_error |-> TRUE,
          attempted |-> [i \in 1..fail_at |-> send_list[i].address]]

\* line 135: "if heart_rate:" is false for None and for 0
Truthy(hr) == hr # NoValue /\ hr # 0

HandlerResult(hr, norm, out, raised) ==
    [heart_rate |-> hr, normalized_hr |-> norm, sent |-> out.sent,
     osc_error |-> out.osc_error, raised |-> raised, attempted |-> out.attempted]

Nothing == [sent |-> <<>>, osc_error |-> FALSE, attempted |-> <<>>]

notification_handler_noZeroCheck(d, fail_at) ==
    LET hr == parse_heart_rate(d) IN
    IF hr # NoValue
    THEN LET c == IF hr = 0 THEN <<0, 1>> ELSE calculated_hr(hr) IN
         IF c = ZeroDivision
         THEN HandlerResult(hr, Unset, Nothing, TRUE)
         ELSE HandlerResult(hr, Clamp(c), send_osc(Messages(hr, Clamp(c)), fail_at), FALSE)
    ELSE HandlerResult(hr, Unset, Nothing, FALSE)

notification_handler(d, fail_at) ==
    LET hr == parse_heart_rate(d) IN
    IF Truthy(hr)
    THEN LET c == calculated_hr(hr) IN
         IF c = ZeroDivision
         THEN HandlerResult(hr, Unset, Nothing, TRUE)
         ELSE HandlerResult(hr, Clamp(c), send_osc(Messages(hr, Clamp(c)), fail_at), FALSE)
    ELSE HandlerResult(hr, Unset, Nothing, FALSE)

\* the sequence s, n times in a row
RECURSIVE Repeat(_, _)
Repeat(s, n) == IF n <= 0 THEN <<>> ELSE s \o Repeat(s, n - 1)

\* the link calls every handler bound to the client with the payload
ApplyHandler(d, fail_at) ==
    LET r == notification_handler(d, fail_at) IN
    /\ data' = d
    /\ heart_rate' = r.heart_rate
    /\ normalized_hr' = r.normalized_hr
    /\ sent' = Repeat(r.sent, handlers)
    /\ osc_error' = r.osc_error
    /\ handler_raised' = r.raised
    /\ attempted' = Repeat(r.attempted, handlers)

Notify_countsFailure ==
    /\ pc = "MaintainSleep"
    /\ is_connected
    /\ handlers > 0
    /\ \E d \in Payloads, fail_at \in 0..2 :
          /\ ApplyHandler(d, fail_at)
          /\ retry_count' = IF osc_error' THEN retry_count + 1 ELSE retry_count
    /\ UNCHANGED <<pc, device_address, max_retries, clients, is_connected, handlers,
                   sleep_delay, stop_signal, escaped, prev, consec_fails,
                   only_not_found>>
    /\ UNCHANGED cause
    /\ UNCHANGED <<logVars, cfgVars>>

\* the BLE link delivers a notification while the task sleeps at line 217
Notify ==
    /\ pc = "MaintainSleep"
    /\ is_connected
    /\ handlers > 0
    /\ \E d \in Payloads, fail_at \in 0..2 : ApplyHandler(d, fail_at)
    /\ UNCHANGED supVars
    /\ UNCHANGED <<logVars, cfgVars>>

----------------------------------------------------------------------------
(* Specifications *)

SupervisorStep ==
    \/ IdleToScanning
    \/ IdleToConnecting
    \/ ScanFound
    \/ ScanNotFound
    \/ ScanError
    \/ ScanSleepWake
    \/ ConnectOK
    \/ ConnectFail
    \/ SubscribeOK
    \/ SubscribeError
    \/ PollConnected
    \/ MaintainWake
    \/ PollDisconnected
    \/ Backoff
    \/ RetrySleepWake

Next ==
    \/ IdleToScanning
    \/ IdleToConnecting
    \/ ScanFound
    \/ ScanNotFound
    \/ ScanError
    \/ ScanSleepWake
    \/ ConnectOK
    \/ ConnectFail
    \/ SubscribeOK
    \/ SubscribeError
    \/ PollConnected
    \/ MaintainWake
    \/ PollDisconnected
    \/ Backoff
    \/ RetrySleepWake
    \/ LinkDown
    \/ Notify
    \/ Stop

Spec == Init /\ [][Next]_vars

\* every await of the loop returns (each is bounded by a configured timeout)
\* and the task is scheduled again; the interrupt, a link drop and a
\* notification may never happen
FairSpec == Init /\ [][Next]_vars /\ WF_vars(SupervisorStep)

\* the signal mapper alone, applied to every heart rate 1..MaxBpm
MapperInit ==
    /\ pc = "MaintainSleep"
    /\ device_address \in Devices
    /\ retry_count = 0
    /\ max_retries = 1
    /\ clients = 1
    /\ is_connected = TRUE
    /\ handlers = 1
    /\ sleep_delay = maintain_interval
    /\ stop_signal = FALSE
    /\ escaped = "none"
    /\ prev = [pc |-> "Monitoring", retry_count |-> 0, device_address |-> device_address]
    /\ consec_fails = 0
    /\ only_not_found = FALSE
    /\ cause = "none"
    /\ data = <<>>
    /\ heart_rate \in 1..MaxBpm
    /\ normalized_hr = Unset
    /\ sent = <<>>
    /\ osc_error = FALSE
    /\ handler_raised = FALSE
    /\ attempted = <<>>
    /\ LogIdle
    /\ ConfigLoaded

\* lines 142-143 applied to heart_rate
MapHeartRate ==
    /\ normalized_hr = Unset
    /\ ~handler_raised
    /\ LET c == calculated_hr(heart_rate) IN
          IF c = ZeroDivision
          THEN /\ handler_raised' = TRUE
               /\ normalized_hr' = normalized_hr
          ELSE /\ handler_raised' = FALSE
               /\ normalized_hr' = Clamp(c)
    /\ UNCHANGED <<data, heart_rate, sent, osc_error, attempted>>
    /\ UNCHANGED supVars
    /\ UNCHANGED <<logVars, cfgVars>>

MapperNext == MapHeartRate

MapperSpec == MapperInit /\ [][MapperNext]_vars

\* the measurement decoder alone, applied to every payload of DecoderPayloads
\* heart_rate before parse_heart_rate() has returned
Pending == -2
\* flag bytes with bit 0 clear (0, 2, 254) and set (1, 3, 255), also used as values
DecoderBytes == {0, 1, 2, 3, 254, 255}
MaxDecoderLen == 4
DecoderPayloads == SeqsUpTo(DecoderBytes, MaxDecoderLen)

DecoderInit ==
    /\ pc = "MaintainSleep"
    /\ device_address \in Devices
    /\ retry_count = 0
    /\ max_retries = 1
    /\ clients = 1
    /\ is_connected = TRUE
    /\ handlers = 1
    /\ sleep_delay = maintain_interval
    /\ stop_signal = FALSE
    /\ escaped = "none"
    /\ prev = [pc |-> "Monitoring", retry_count |-> 0, device_address |-> device_address]
    /\ consec_fails = 0
    /\ only_not_found = FALSE
    /\ cause = "none"
    /\ data \in DecoderPayloads
    /\ heart_rate = Pending
    /\ normalized_hr = Unset
    /\ sent = <<>>
    /\ osc_error = FALSE
    /\ handler_raised = FALSE
    /\ attempted = <<>>
    /\ LogIdle
    /\ ConfigLoaded

\* line 134: heart_rate = parse_heart_rate(data)
DecodePayload ==
    /\ heart_rate = Pending
    /\ heart_rate' = parse_heart_rate(data)
    /\ UNCHANGED <<data, normalized_hr, sent, osc_error, handler_raised, attempted>>
    /\ UNCHANGED supVars
    /\ UNCHANGED <<logVars, cfgVars>>

DecoderNext == DecodePayload

DecoderSpec == DecoderInit /\ [][DecoderNext]_vars

\* one connection in Connected/Monitoring: notifications arrive while the
\* polling loop of lines 216-217 runs
MaxNotifications == 3
\* payloads decoding to None, 0, 1, 44, 256 and 300
OrderPayloads == {<<>>, <<0, 0>>, <<0, 1>>, <<0, 44>>, <<1, 0, 1>>, <<1, 44, 1>>}

OrderInit ==
    /\ pc = "Monitoring"
    /\ device_address \in Devices
    /\ retry_count = 0
    /\ max_retries = 1
    /\ clients = 1
    /\ is_connected = TRUE
    /\ handlers = 1
    /\ sleep_delay = 0
    /\ stop_signal = FALSE
    /\ escaped = "none"
    /\ prev = [pc |-> "Subscribing", retry_count |-> 0, device_address |-> device_address]
    /\ consec_fails = 0
    /\ only_not_found = FALSE
    /\ cause = "none"
    /\ PipeIdle
    /\ LogIdle
    /\ ConfigLoaded

\* the heartbeat_value messages among msgs, as sent for notification number n
RECURSIVE ValuesSent(_, _)
ValuesSent(msgs, n) ==
    IF msgs = <<>> THEN <<>>
    ELSE (IF Head(msgs).address = "heartbeat_value"
          THEN << [n |-> n, bpm |-> Head(msgs).value[1]] >>
          ELSE <<>>) \o ValuesSent(Tail(msgs), n)

NotifyLogged_deferred ==
    /\ pc = "MaintainSleep"
    /\ is_connected
    /\ handlers > 0
    /\ Len(received) < MaxNotifications
    /\ \E d \in OrderPayloads, fail_at \in 0..2 :
          /\ ApplyHandler(d, fail_at)
          /\ received' = Append(received, d)
          /\ forwarded' = ValuesSent(sent', Len(received) + 1) \o forwarded
    /\ UNCHANGED supVars
    /\ UNCHANGED cfgVars

\* Notify, with the payloads received and the heartbeat_value messages sent
\* recorded in the order in which the handler ran and send_message was called
NotifyLogged ==
    /\ pc = "MaintainSleep"
    /\ is_connected
    /\ handlers > 0
    /\ Len(received) < MaxNotifications
    /\ \E d \in OrderPayloads, fail_at \in 0..2 :
          /\ ApplyHandler(d, fail_at)
          /\ received' = Append(received, d)
          /\ forwarded' = forwarded \o ValuesSent(sent', Len(received) + 1)
    /\ UNCHANGED supVars
    /\ UNCHANGED cfgVars

OrderNext ==
    \/ PollConnected
    \/ MaintainWake
    \/ NotifyLogged

OrderSpec == OrderInit /\ [][OrderNext]_vars

----------------------------------------------------------------------------
(* Configuration merge: merge_config(), lines 36-43 *)

ConfigKeys == {"connection", "timeout"}
Scalars == {1, 2}
\* mappings of scalars, and mappings whose values are scalars or such mappings
FlatConfigs == UNION {[K -> {Scalar(x) : x \in Scalars}] : K \in SUBSET ConfigKeys}
ConfigValues == {Scalar(x) : x \in Scalars} \cup {Mapping(f) : f \in FlatConfigs}
Configs == UNION {[K -> ConfigValues] : K \in SUBSET ConfigKeys}

IsDict(value) == value.kind = "map"

\* result.update(user_config): every value of user_config overrides wholesale
merge_config_shallow(d, u) ==
    [k \in DOMAIN d \cup DOMAIN u |-> IF k \in DOMAIN u THEN u[k] ELSE d[k]]

RECURSIVE merge_config(_, _)
RECURSIVE MergeItems(_, _, _)
\* lines 38-42: the for loop over the items of user_config not yet visited
MergeItems(result, u, keys) ==
    IF keys = {} THEN result
    ELSE LET key == CHOOSE k \in keys : TRUE
             value == u[key]
             new == IF IsDict(value) /\ key \in DOMAIN result /\ IsDict(result[key])
                    THEN Mapping(merge_config(result[key].m, value.m))
                    ELSE value
         IN  MergeItems([k \in DOMAIN result \cup {key} |->
                            IF k = key THEN new ELSE result[k]],
                        u, keys \ {key})

\* lines 36-43: result starts as a copy of default_config
merge_config(d, u) == MergeItems(d, u, DOMAIN u)

MergeInit ==
    /\ pc = "Idle"
    /\ device_address = None
    /\ retry_count = 0
    /\ max_retries = 1
    /\ clients = 0
    /\ is_connected = FALSE
    /\ handlers = 0
    /\ sleep_delay = 0
    /\ stop_signal = FALSE
    /\ escaped = "none"
    /\ prev = [pc |-> "start", retry_count |-> 0, device_address |-> None]
    /\ consec_fails = 0
    /\ only_not_found = TRUE
    /\ cause = "none"
    /\ PipeIdle
    /\ LogIdle
    /\ default_config \in Configs
    /\ user_config \in Configs
    /\ merged = NotMerged

\* line 61: merge_config(CONFIG, user_config) returns; the assignments of
\* lines 40 and 42 go to the copy made at line 37, not to default_config
MergeConfig ==
    /\ ~merged.done
    /\ merged' = [done |-> TRUE, result |-> merge_config(default_config, user_config)]
    /\ default_config' = default_config
    /\ user_config' = user_config
    /\ UNCHANGED supVars
    /\ UNCHANGED pipeVars
    /\ UNCHANGED logVars

MergeNext == MergeConfig

MergeSpec == MergeInit /\ [][MergeNext]_vars

TypeOK ==
    /\ pc \in {"Idle", "Scanning", "ScanRetrySleep", "Connecting", "Subscribing",
               "Monitoring", "MaintainSleep", "Backoff", "RetrySleep", "Terminated"}
    /\ device_address \in Devices \cup {None}
    /\ retry_count \in Nat
    /\ clients \in Nat
    /\ handlers \in Nat
    /\ is_connected \in BOOLEAN
    /\ sleep_delay \in {0, scan_retry_interval, retry_delay, maintain_interval}

----------------------------------------------------------------------------
(* Properties *)

NoLinkHeld == clients = 0 /\ ~is_connected

\* C1: retry exhaustion.  At the Backoff step after a failed connect: when
\* the connect attempts against the held address have failed max_retries
\* times in a row, the address is cleared and retry_count reset to 0; with
\* fewer failures in a row the address is kept.  After the retry delay the
\* loop scans when the address was cleared and connects to the same address
\* when it was kept, and no connect is attempted without an address.
C1_RetryExhaustion ==
    [][ /\ (pc = "Backoff" /\ cause = "connect_fail" /\ pc' = "RetrySleep") =>
              IF consec_fails >= max_retries
              THEN device_address' = None /\ retry_count' = 0
              ELSE device_address' = device_address /\ device_address # None
        /\ (pc = "RetrySleep" /\ pc' = "Idle") => device_address' = device_address
        /\ (pc = "Idle" /\ pc' \notin {"Idle", "Terminated"}) =>
              /\ device_address' = device_address
              /\ pc' = IF device_address = None THEN "Scanning" ELSE "Connecting"
        /\ (pc' = "Connecting") => device_address' # None
      ]_vars

\* C2: link loss keeps the device, for every max_retries.  From the poll that
\* finds the link down until the next attempt, the address is held and does
\* not change, and that next attempt is a connect (no scan in between).
C2_LinkLossKeepsDevice ==
    [][ (cause = "link_lost" \/ cause' = "link_lost") =>
           /\ device_address # None
           /\ device_address' = device_address
           /\ (cause' = "link_lost" => pc' \in {"Backoff", "RetrySleep", "Idle", "Terminated"})
           /\ (cause' # "link_lost" => pc' \in {"Connecting", "Terminated"})
      ]_vars

\* C2 amended: the same, for every max_retries >= 1.
C2_LinkLossKeepsDevice_PositiveMax ==
    [][ (max_retries >= 1 /\ (cause = "link_lost" \/ cause' = "link_lost")) =>
           /\ device_address # None
           /\ device_address' = device_address
           /\ (cause' = "link_lost" => pc' \in {"Backoff", "RetrySleep", "Idle", "Terminated"})
           /\ (cause' # "link_lost" => pc' \in {"Connecting", "Terminated"})
      ]_vars

\* after a link loss and the retry delay the loop is about to connect to
\* the address it held
C2_Witness ==
    /\ pc = "Idle"
    /\ prev.pc = "RetrySleep"
    /\ cause = "link_lost"
    /\ max_retries >= 1
    /\ device_address \in Devices

\* C3: user stop.  In every state but Terminated the stop signal can act at
\* once (also during a scan, a connect, a subscription and each sleep); the
\* step that takes it leads directly to Terminated; and in Terminated no BLE
\* link is held.
C3_UserStop ==
    /\ [](pc # "Terminated" => ENABLED Stop)
    /\ [][(stop_signal' /\ ~stop_signal) => (pc' = "Terminated" /\ clients' = 0 /\ ~is_connected')]_vars
    /\ [](pc = "Terminated" => NoLinkHeld)

\* the stop signal arrived during the poll sleep, with the link open
C3_Witness ==
    /\ pc = "Terminated"
    /\ stop_signal
    /\ prev.pc = "MaintainSleep"
    /\ NoLinkHeld

\* C4: only the user stop terminates the supervisor.  Without a stop signal
\* the loop is never in Terminated and no exception has left main().
C4_OnlyStopTerminates ==
    ~stop_signal => (pc # "Terminated" /\ escaped = "none")

\* the loop goes on after a failed subscription
C4_Witness ==
    /\ ~stop_signal
    /\ pc = "RetrySleep"
    /\ cause = "subscribe_error"
    /\ only_not_found = FALSE

\* C5: discovery never gives up.  As long as every scan has returned "not
\* found": no address is held, retry_count is 0 and no connect was attempted;
\* a failed scan is followed by a sleep of scan_retry_interval and then the
\* loop top and another scan; and, if the scanner never finds a device and no
\* stop signal arrives, the loop scans infinitely often.
C5_DiscoveryNeverGivesUp ==
    /\ [](only_not_found =>
             /\ device_address = None
             /\ retry_count = 0
             /\ pc \in {"Idle", "Scanning", "ScanRetrySleep", "Terminated"})
    /\ [](pc = "ScanRetrySleep" => sleep_delay = scan_retry_interval)
    /\ [][(only_not_found' /\ pc # pc' /\ pc' # "Terminated") =>
             pc' = CASE pc = "Idle" -> "Scanning"
                     [] pc = "Scanning" -> "ScanRetrySleep"
                     [] pc = "ScanRetrySleep" -> "Idle"
                     [] OTHER -> "unreachable"]_vars
    /\ (([]only_not_found /\ [](pc # "Terminated")) => []<>(pc = "Scanning"))

\* back at the loop top after a failed scan and its sleep
C5_Witness ==
    /\ only_not_found
    /\ pc = "Idle"
    /\ prev.pc = "ScanRetrySleep"

\* C6: counter reset on success.  The step of a successful connect leaves
\* retry_count at 0, and it is 0 while the subscription is attempted.
C6_CounterResetOnSuccess ==
    /\ [](pc = "Subscribing" => retry_count = 0)
    /\ [][(pc = "Connecting" /\ pc' = "Subscribing") => retry_count' = 0]_vars

\* a connect succeeded after earlier failures had raised the counter
C6_Witness ==
    /\ pc = "Subscribing"
    /\ prev.pc = "Connecting"
    /\ prev.retry_count > 0
    /\ retry_count = 0

\* C7: at most one active BLE connection.  Never more than one client is
\* open, and none is open at the loop top, during a scan, a scan-retry
\* sleep, a connect attempt, Backoff, the retry sleep, or after termination.
C7_AtMostOneConnection ==
    /\ clients <= 1
    /\ (pc \in {"Idle", "Scanning", "ScanRetrySleep", "Connecting", "Backoff",
                "RetrySleep", "Terminated"} => clients = 0)

\* the link of a connection that ended with a failed subscription is released
C7_Witness ==
    /\ pc = "Backoff"
    /\ cause = "subscribe_error"
    /\ prev.pc = "Subscribing"
    /\ clients = 0

\* C8: no zero is ever forwarded.  A notification whose payload decodes to
\* "no value" or to 0 sends no OSC message, and no heartbeat_value message
\* carries 0.
C8_NoZeroForwarded ==
    /\ (parse_heart_rate(data) \in {NoValue, 0} => sent = <<>>)
    /\ \A i \in 1..Len(sent) :
          sent[i].address = "heartbeat_value" => sent[i].value[1] # 0

\* a notification that decodes to 0 was handled
C8_Witness ==
    /\ data = <<0, 0>>
    /\ heart_rate = 0
    /\ sent = <<>>
    /\ pc = "MaintainSleep"

\* C9: an OSC send failure is isolated.  A handler call in which a send
\* fails changes nothing of the supervisor (position, address, retry
\* counter, link, bound handler), and the next notification can be handled.
C9_SendFailureIsolated ==
    /\ [][(osc_error' /\ pipeVars' # pipeVars) =>
             UNCHANGED <<pc, device_address, retry_count, clients, is_connected,
                         handlers, stop_signal, escaped>>]_vars
    /\ []((osc_error /\ is_connected) => ENABLED Notify)

\* the send of the second message failed
C9_Witness ==
    /\ osc_error
    /\ Len(sent) = 1
    /\ pc = "MaintainSleep"
    /\ is_connected

\* C10: signal mapper range.  For every heart rate 1..300 the mapper raises
\* no error and its result v satisfies 0 <= v <= 1.
C10_MapperRange ==
    (heart_rate \in 1..300 /\ (normalized_hr # Unset \/ handler_raised)) =>
        /\ ~handler_raised
        /\ ~Less(normalized_hr, <<0, 1>>)
        /\ ~Less(<<1, 1>>, normalized_hr)

\* bit 0 of a flags byte, read off the binary digits
Bit0(b) == (b \div 2) * 2 # b

\* C11: measurement decoder.  For every payload p: "no value" when
\* len(p) < 2; with bit 0 of p[0] set, "no value" when len(p) < 3 and
\* p[1] + 256 * p[2] otherwise; with bit 0 clear, p[1]; and the result is
\* the same for every other flags byte with the same bit 0 and for every
\* byte appended after the bytes read.
C11_DecoderResult ==
    heart_rate # Pending =>
       /\ IF Len(data) < 2 THEN heart_rate = NoValue
          ELSE IF Bit0(data[1])
               THEN IF Len(data) < 3 THEN heart_rate = NoValue
                    ELSE heart_rate = data[2] + 256 * data[3]
               ELSE heart_rate = data[2]
       /\ Len(data) >= 2 =>
             \A f \in DecoderBytes :
                 Bit0(f) = Bit0(data[1]) =>
                     parse_heart_rate([data EXCEPT ![1] = f]) = heart_rate
       /\ (Len(data) >= 3 \/ (Len(data) = 2 /\ ~Bit0(data[1]))) =>
             \A b \in DecoderBytes :
                 parse_heart_rate(Append(data, b)) = heart_rate

\* a 16-bit payload with other flag bits set and a trailing byte was decoded
C11_Witness ==
    /\ data = <<3, 1, 2, 255>>
    /\ heart_rate = 513

\* C12: forwarding order.  The heartbeat_value messages of a connection
\* are sent in the order in which their notifications were received, each
\* carrying the heart rate of its notification, whatever the polling loop
\* does in between.
C12_ForwardingOrder ==
    /\ \A i \in 1..Len(forwarded) :
          /\ forwarded[i].n \in 1..Len(received)
          /\ forwarded[i].bpm = parse_heart_rate(received[forwarded[i].n])
    /\ \A i \in 1..Len(forwarded), j \in 1..Len(forwarded) :
          i < j => forwarded[i].n < forwarded[j].n

\* three notifications were received across polls, the first and the third
\* were forwarded with different heart rates
C12_Witness ==
    /\ Len(received) = 3
    /\ Len(forwarded) = 2
    /\ forwarded[1].n = 1
    /\ forwarded[2].n = 3
    /\ forwarded[1].bpm # forwarded[2].bpm
    /\ pc = "Monitoring"

\* the set of elements of a sequence
Range(seq) == {seq[i] : i \in 1..Len(seq)}

\* C13: the two messages are sent independently.  For every notification
\* that decodes to a non-zero heart rate, a send of heartbeat_value and a
\* send of heartbeat_waittime are both attempted, also when the send of
\* heartbeat_value fails.
C13_IndependentSends ==
    Truthy(parse_heart_rate(data)) =>
        /\ "heartbeat_value" \in Range(attempted)
        /\ "heartbeat_waittime" \in Range(attempted)

\* the supervisor is in Connected/Monitoring and the link is down
DeadLink == pc \in {"Monitoring", "MaintainSleep"} /\ ~is_connected

LinkLostBackoff == pc = "Backoff" /\ cause = "link_lost"

\* C14: recovery from a disconnect.  When no stop signal arrives, a link
\* that goes down in Connected/Monitoring leads to Backoff, and that Backoff
\* leads to a new connect attempt.
C14_RecoveryFromDisconnect ==
    [](pc # "Terminated") =>
        /\ (DeadLink ~> LinkLostBackoff)
        /\ (LinkLostBackoff ~> (pc = "Connecting"))

\* C14 amended: that Backoff leads to a new connect attempt when
\* max_retries >= 1 and to a scan when max_retries <= 0.
C14_RecoveryFromDisconnect_ScanAtZero ==
    [](pc # "Terminated") =>
        /\ (DeadLink ~> LinkLostBackoff)
        /\ (LinkLostBackoff ~>
               (pc = IF max_retries >= 1 THEN "Connecting" ELSE "Scanning"))

\* the retry delay after a link loss is being slept, the address still held
C14_Witness ==
    /\ pc = "RetrySleep"
    /\ cause = "link_lost"
    /\ sleep_delay = retry_delay
    /\ device_address \in Devices
    /\ max_retries >= 1

\* C15: one handler at a time.  At most one notification handler is bound,
\* and only to the one open client in Connected/Monitoring; a notification
\* produces at most one heartbeat_value message.
C15_OneHandler ==
    /\ handlers <= 1
    /\ handlers = 1 => (clients = 1 /\ pc \in {"Monitoring", "MaintainSleep"})
    /\ Cardinality({i \in 1..Len(sent) : sent[i].address = "heartbeat_value"}) <= 1

\* a reconnect after a link loss is under way and the handler of the
\* previous connection is no longer bound
C15_Witness ==
    /\ pc = "Connecting"
    /\ prev.pc = "Idle"
    /\ retry_count = 0
    /\ max_retries >= 1
    /\ device_address \in Devices
    /\ handlers = 0

\* C16: configuration deep merge.  merge(d, u) has exactly the keys of d
\* and u; where d[k] and u[k] are both mappings the result at k is
\* merge(d[k], u[k]) (key by key: u[k][j] if present, else d[k][j]); at any
\* other key of u it is u[k]; at a key only in d it is d[k]; and the call
\* leaves d and u as they were.
C16_DeepMerge ==
    /\ [](merged.done =>
            LET d == default_config
                u == user_config
                r == merged.result
            IN  /\ DOMAIN r = DOMAIN d \cup DOMAIN u
                /\ \A k \in DOMAIN r :
                      IF k \in DOMAIN u
                      THEN IF IsDict(u[k]) /\ k \in DOMAIN d /\ IsDict(d[k])
                           THEN /\ r[k] = Mapping(merge_config(d[k].m, u[k].m))
                                /\ IsDict(r[k])
                                /\ DOMAIN r[k].m = DOMAIN d[k].m \cup DOMAIN u[k].m
                                /\ \A j \in DOMAIN r[k].m :
                                      r[k].m[j] = IF j \in DOMAIN u[k].m
                                                  THEN u[k].m[j] ELSE d[k].m[j]
                           ELSE r[k] = u[k]
                      ELSE r[k] = d[k])
    /\ [][default_config' = default_config /\ user_config' = user_config]_vars

\* both sides hold a mapping at "connection" with different keys inside,
\* and the nested mappings were merged
C16_Witness ==
    /\ merged.done
    /\ DOMAIN default_config = {"connection", "timeout"}
    /\ DOMAIN user_config = {"connection"}
    /\ IsDict(default_config["connection"])
    /\ IsDict(user_config["connection"])
    /\ DOMAIN default_config["connection"].m = {"timeout"}
    /\ DOMAIN user_config["connection"].m = {"connection"}
    /\ DOMAIN merged.result["connection"].m = {"connection", "timeout"}

\* C17: connect failure handling.  A failed connect attempt raises
\* retry_count by exactly 1 and leads to Backoff; Backoff is left only into
\* the sleep of retry_delay, with the address kept or cleared; that sleep is
\* left only to the loop top; and a scan or connect attempt starts only
\* from the loop top or from a scan.
C17_ConnectFailure ==
    /\ [][ /\ (pc = "Connecting" /\ pc' \notin {"Connecting", "Subscribing", "Terminated"}) =>
                 (pc' = "Backoff" /\ retry_count' = retry_count + 1)
           /\ (pc = "Backoff" /\ pc' \notin {"Backoff", "Terminated"}) =>
                 (pc' = "RetrySleep" /\ sleep_delay' = retry_delay)
           /\ (pc = "RetrySleep" /\ pc' \notin {"RetrySleep", "Terminated"}) =>
                 pc' = "Idle"
           /\ (pc' \in {"Scanning", "Connecting"} /\ pc' # pc) =>
                 pc \in {"Idle", "Scanning"}
         ]_vars
    /\ [](pc = "RetrySleep" => sleep_delay = retry_delay)

\* the retry delay is slept after the connect failure that cleared the address
C17_Witness ==
    /\ pc = "RetrySleep"
    /\ cause = "connect_fail"
    /\ sleep_delay = retry_delay
    /\ device_address = None
    /\ prev.device_address \in Devices
    /\ prev.retry_count >= 2

\* C18: retry counter range, for every max_retries.  retry_count is in
\* 0..max_retries in every state, and below max_retries when a connect
\* attempt starts.
C18_CounterRange ==
    /\ retry_count >= 0
    /\ retry_count <= max_retries
    /\ pc = "Connecting" => retry_count < max_retries

\* C18 amended: the same, for every max_retries >= 1.
C18_CounterRange_PositiveMax ==
    max_retries >= 1 =>
        /\ retry_count >= 0
        /\ retry_count <= max_retries
        /\ pc = "Connecting" => retry_count < max_retries

\* the counter has reached max_retries after a failed connect
C18_Witness ==
    /\ pc = "Backoff"
    /\ cause = "connect_fail"
    /\ max_retries >= 2
    /\ retry_count = max_retries

\* C19: counter and device identity are reset together.  Whenever no
\* address is held at the loop top, during a scan or during the scan-retry
\* sleep, retry_count is 0, also after a scan that raised.
C19_ResetTogether ==
    (device_address = None /\ pc \in {"Idle", "Scanning", "ScanRetrySleep"}) =>
        retry_count = 0

\* C20: retries against one address are bounded.  If no stop signal arrives
\* and no attempt ever reaches Monitoring, the held address is cleared again
\* and again: the loop does not retry one address forever.
C20_BoundedRetries ==
    ([](pc # "Terminated") /\ [](pc # "Monitoring")) => []<>(device_address = None)

====
